---- MODULE Spec2Model ----
(***************************************************************************)
(* Model of the neuron-dynamics simulator: the model registry              *)
(* (NEURON_MODELS: lif, izhikevich_rs, hodgkin_huxley), the Simulator      *)
(* class (state, plotData, animationId, the sliders it reads its           *)
(* parameters from) and the browser facilities it drives (animation        *)
(* frames, setTimeout timers).                                             *)
(*                                                                         *)
(* Numbers.  A JavaScript Number is modelled as a fixed-point integer: the *)
(* integer n stands for n / Unit, so 1e-6 is the resolution and TLC's      *)
(* 32-bit integers bound magnitudes by about 2147.  Products and quotients *)
(* truncate toward zero.  NaN is a distinguished value that every          *)
(* arithmetic operator propagates and every comparison answers FALSE for.  *)
(* Division by zero and overflow to Infinity are outside the model (TLC    *)
(* stops with an error if a run ever gets there).                          *)
(***************************************************************************)
EXTENDS Integers, Sequences, FiniteSets, TLC

Unit == 1000000

NaN == -2147483647

Null == -2147483646

Abs(a) == IF a < 0 THEN -a ELSE a

IsNum(a) == a # NaN /\ a # Null

\* null converts to 0 in arithmetic, NaN stays NaN
ToNumber(a) == IF a = Null THEN 0 ELSE a

Add(a, b) ==
    IF ToNumber(a) = NaN \/ ToNumber(b) = NaN THEN NaN ELSE ToNumber(a) + ToNumber(b)

Sub(a, b) ==
    IF ToNumber(a) = NaN \/ ToNumber(b) = NaN THEN NaN ELSE ToNumber(a) - ToNumber(b)

\* floor(a * b / Unit) for a, b >= 0, without an intermediate beyond 32 bits
MulAbs(a, b) ==
    LET ah == a \div 1000
        al == a % 1000
        bh == b \div 1000
        bl == b % 1000
    IN  ah * bh + (ah * bl + al * bh + (al * bl) \div 1000) \div 1000

Mul(a, b) ==
    IF ToNumber(a) = NaN \/ ToNumber(b) = NaN THEN NaN
    ELSE LET x == ToNumber(a)
             y == ToNumber(b)
         IN  IF (x < 0) = (y < 0) THEN MulAbs(Abs(x), Abs(y))
             ELSE -MulAbs(Abs(x), Abs(y))

RECURSIVE FracDigits(_, _, _)
\* the first n decimal digits of r / b, for 0 <= r < b
FracDigits(r, b, n) ==
    IF n = 0 THEN 0
    ELSE ((r * 10) \div b) * (10 ^ (n - 1)) + FracDigits((r * 10) % b, b, n - 1)

\* floor(a * Unit / b) for a >= 0, b > 0
DivAbs(a, b) == (a \div b) * Unit + FracDigits(a % b, b, 6)

\* a / b; 0 / 0 is NaN, and the Infinity of any other division by zero is
\* folded into NaN: neither is a finite Number
Div(a, b) ==
    IF ToNumber(a) = NaN \/ ToNumber(b) = NaN \/ ToNumber(b) = 0 THEN NaN
    ELSE LET x == ToNumber(a)
             y == ToNumber(b)
         IN  IF (x < 0) = (y < 0) THEN DivAbs(Abs(x), Abs(y))
             ELSE -DivAbs(Abs(x), Abs(y))

\* a >= b of JavaScript: false as soon as an operand is NaN
Ge(a, b) == ToNumber(a) # NaN /\ ToNumber(b) # NaN /\ ToNumber(a) >= ToNumber(b)

Gt(a, b) == ToNumber(a) # NaN /\ ToNumber(b) # NaN /\ ToNumber(a) > ToNumber(b)

Lt(a, b) == ToNumber(a) # NaN /\ ToNumber(b) # NaN /\ ToNumber(a) < ToNumber(b)

\* a / n for an integer n > 0, truncated toward zero
Quot(a, n) == IF a < 0 THEN -((-a) \div n) ELSE a \div n

RECURSIVE ExpSeries(_, _, _, _)
\* acc plus the Taylor terms f^k / k! for k = n .. 12, term being f^(n-1)/(n-1)!
ExpSeries(f, term, n, acc) ==
    IF n > 12 \/ term = 0 THEN acc
    ELSE LET next == Quot(Mul(term, f), n)
         IN  ExpSeries(f, next, n + 1, acc + next)

RECURSIVE ExpScale(_, _)
\* v * e^k for an integer k
ExpScale(v, k) ==
    IF k = 0 THEN v
    ELSE IF k > 0 THEN ExpScale(MulAbs(v, 2718282), k - 1)
    ELSE ExpScale(MulAbs(v, 367879), k + 1)

\* Math.exp: e^k * e^f with k the integer part of x and -1 < f < 1
MathExp(x) ==
    IF ToNumber(x) = NaN THEN NaN
    ELSE LET v == ToNumber(x)
             k == Quot(v, Unit)
             f == v - k * Unit
         IN  ExpScale(ExpSeries(f, Unit, 1, Unit), k)

MathAbs(x) == IF ToNumber(x) = NaN THEN NaN ELSE Abs(ToNumber(x))

\* obj.c of JavaScript: undefined when the property is missing; undefined
\* converts to NaN in arithmetic
Has(obj, c) == c \in DOMAIN obj

Get(obj, c) == IF Has(obj, c) THEN obj[c] ELSE NaN

(***************************************************************************)
(* The model registry NEURON_MODELS.                                       *)
(***************************************************************************)
\* n / 1000 as a Number
Milli(n) == n * 1000

Num(n) == n * Unit

LifParameters ==
    << [id |-> "I",   min |-> Num(0),   max |-> Num(40),  step |-> Milli(500), value |-> Num(21)],
       [id |-> "tau", min |-> Num(5),   max |-> Num(50),  step |-> Num(1),     value |-> Num(20)],
       [id |-> "Vth", min |-> Num(-60), max |-> Num(-40), step |-> Num(1),     value |-> Num(-50)],
       [id |-> "El",  min |-> Num(-80), max |-> Num(-60), step |-> Num(1),     value |-> Num(-70)] >>

IzhParameters ==
    << [id |-> "I", min |-> Num(0),    max |-> Num(25),    step |-> Milli(500), value |-> Num(10)],
       [id |-> "a", min |-> Milli(10), max |-> Milli(100), step |-> Milli(10),  value |-> Milli(20)],
       [id |-> "b", min |-> Milli(100), max |-> Milli(300), step |-> Milli(50), value |-> Milli(200)],
       [id |-> "c", min |-> Num(-75),  max |-> Num(-50),   step |-> Num(1),     value |-> Num(-65)],
       [id |-> "d", min |-> Num(0),    max |-> Num(12),    step |-> Milli(500), value |-> Num(8)] >>

HhParameters ==
    << [id |-> "I_ext", min |-> Num(0), max |-> Num(20),  step |-> Milli(500), value |-> Num(10)],
       [id |-> "gNa",   min |-> Num(0), max |-> Num(200), step |-> Num(10),    value |-> Num(120)],
       [id |-> "gK",    min |-> Num(0), max |-> Num(50),  step |-> Num(5),     value |-> Num(36)],
       [id |-> "gL",    min |-> Num(0), max |-> Num(1),   step |-> Milli(100), value |-> Milli(300)] >>

\* params[i] of a destructuring assignment: undefined past the end
Nth(params, i) == IF i \in 1..Len(params) THEN params[i] ELSE NaN

\* V at which lif.simulate starts to integrate: the reset of a step that starts
\* at or above the threshold
LifStartV(params, state) ==
    LET Vth     == Nth(params, 3)
        El      == Nth(params, 4)
        V_reset == Sub(El, Num(5))
        V       == Get(state, "x")
    IN  IF Ge(V, Vth) THEN V_reset ELSE V

\* V after the forward-Euler step of lif.simulate, before the visual spike
LifIntegrate(params, V, dt) ==
    LET I   == Nth(params, 1)
        tau == Nth(params, 2)
        El  == Nth(params, 4)
        dV  == Div(Add(Sub(El, V), I), tau)
    IN  Add(V, Mul(dt, dV))

LifSimulate(params, state, dt) ==
    LET Vth   == Nth(params, 3)
        newV  == LifIntegrate(params, LifStartV(params, state), dt)
    IN  [x |-> IF Ge(newV, Vth) THEN 0 ELSE newV,
         t |-> Add(Get(state, "t"), dt)]

\* izhikevich_rs.simulate with the reset applied after the derivatives
IzhSimulateLateReset(params, state, dt) ==
    LET I    == Nth(params, 1)
        a    == Nth(params, 2)
        b    == Nth(params, 3)
        c    == Nth(params, 4)
        d    == Nth(params, 5)
        v0   == Get(state, "x")
        u0   == Get(state, "y")
        dv   == Add(Sub(Add(Add(Mul(Mul(Milli(40), v0), v0), Mul(Num(5), v0)), Num(140)), u0), I)
        du   == Mul(a, Sub(Mul(b, v0), u0))
        v    == IF Ge(v0, Num(30)) THEN c ELSE v0
        u    == IF Ge(v0, Num(30)) THEN Add(u0, d) ELSE u0
        newV == Add(v, Mul(dt, dv))
    IN  [x |-> IF Ge(newV, Num(30)) THEN Num(30) ELSE newV,
         y |-> Add(u, Mul(dt, du)),
         t |-> Add(Get(state, "t"), dt)]

IzhSimulate(params, state, dt) ==
    LET I    == Nth(params, 1)
        a    == Nth(params, 2)
        b    == Nth(params, 3)
        c    == Nth(params, 4)
        d    == Nth(params, 5)
        v0   == Get(state, "x")
        u0   == Get(state, "y")
        v    == IF Ge(v0, Num(30)) THEN c ELSE v0
        u    == IF Ge(v0, Num(30)) THEN Add(u0, d) ELSE u0
        dv   == Add(Sub(Add(Add(Mul(Mul(Milli(40), v), v), Mul(Num(5), v)), Num(140)), u), I)
        du   == Mul(a, Sub(Mul(b, v), u))
        newV == Add(v, Mul(dt, dv))
    IN  [x |-> IF Ge(newV, Num(30)) THEN Num(30) ELSE newV,
         y |-> Add(u, Mul(dt, du)),
         t |-> Add(Get(state, "t"), dt)]

Neg(a) == Sub(0, a)

\* the divisor 1 - Math.exp(-(V + 55) / 10) of alpha_n
AlphaNDivisor(V) == Sub(Num(1), MathExp(Div(Neg(Add(V, Num(55))), Num(10))))

\* alpha_n of hodgkin_huxley.simulate: singularity at V = -55.  Between 1e-5
\* and about 1e-3 from it the six decimals kept here make the quotient coarse.
AlphaN(V) ==
    IF Lt(MathAbs(Add(V, Num(55))), 10) THEN Milli(100)
    ELSE Div(Mul(Milli(10), Add(V, Num(55))), AlphaNDivisor(V))

BetaN(V) == Mul(Milli(125), MathExp(Div(Neg(Add(V, Num(65))), Num(80))))

\* the divisor 1 - Math.exp(-(V + 40) / 10) of alpha_m
AlphaMDivisor(V) == Sub(Num(1), MathExp(Div(Neg(Add(V, Num(40))), Num(10))))

\* alpha_m without the guard of its singularity
AlphaMUnguarded(V) == Div(Mul(Milli(100), Add(V, Num(40))), AlphaMDivisor(V))

\* alpha_m of hodgkin_huxley.simulate: singularity at V = -40
AlphaM(V) ==
    IF Lt(MathAbs(Add(V, Num(40))), 10) THEN Num(1)
    ELSE Div(Mul(Milli(100), Add(V, Num(40))), AlphaMDivisor(V))

BetaM(V) == Mul(Num(4), MathExp(Div(Neg(Add(V, Num(65))), Num(18))))

AlphaH(V) == Mul(Milli(70), MathExp(Div(Neg(Add(V, Num(65))), Num(20))))

BetaH(V) == Div(Num(1), Add(Num(1), MathExp(Div(Neg(Add(V, Num(35))), Num(10)))))

HhSimulate(params, state, dt) ==
    LET I_ext  == Nth(params, 1)
        gNaMax == Nth(params, 2)
        gKMax  == Nth(params, 3)
        gL     == Nth(params, 4)
        ENa    == Num(50)
        EK     == Num(-77)
        EL     == Milli(-54400)
        Cm     == Num(1)
        V      == Get(state, "x")
        m      == Get(state, "y")
        h      == Get(state, "z")
        n      == IF Has(state, "n") THEN state.n ELSE Milli(320)
        INa    == Mul(Mul(Mul(gNaMax, Mul(Mul(m, m), m)), h), Sub(V, ENa))
        IK     == Mul(Mul(gKMax, Mul(Mul(Mul(n, n), n), n)), Sub(V, EK))
        IL     == Mul(gL, Sub(V, EL))
        dV     == Div(Sub(Sub(Sub(I_ext, INa), IK), IL), Cm)
        dm     == Sub(Mul(AlphaM(V), Sub(Num(1), m)), Mul(BetaM(V), m))
        dh     == Sub(Mul(AlphaH(V), Sub(Num(1), h)), Mul(BetaH(V), h))
        dn     == Sub(Mul(AlphaN(V), Sub(Num(1), n)), Mul(BetaN(V), n))
    IN  [x |-> Add(V, Mul(dt, dV)),
         y |-> Add(m, Mul(dt, dm)),
         z |-> Add(h, Mul(dt, dh)),
         n |-> Add(n, Mul(dt, dn)),
         t |-> Add(Get(state, "t"), dt)]

NEURON_MODELS ==
    [lif |->
        [name         |-> "Leaky Integrate-and-Fire (LIF)",
         parameters   |-> LifParameters,
         initialState |-> [x |-> Num(-70), y |-> 0, z |-> 0, t |-> 0]],
     izhikevich_rs |->
        [name         |-> "Izhikevich (Regular Spiking)",
         parameters   |-> IzhParameters,
         initialState |-> [x |-> Num(-65), y |-> Num(-13), z |-> 0, t |-> 0]],
     hodgkin_huxley |->
        [name         |-> "Hodgkin-Huxley (Biophysical)",
         parameters   |-> HhParameters,
         initialState |-> [x |-> Num(-65), y |-> Milli(50), z |-> Milli(600), t |-> 0]]]

\* system.simulate(params, state, dt) of the registry entry `key`
Simulate(key, params, state, dt) ==
    CASE key = "lif"            -> LifSimulate(params, state, dt)
      [] key = "izhikevich_rs"  -> IzhSimulate(params, state, dt)
      [] key = "hodgkin_huxley" -> HhSimulate(params, state, dt)

(***************************************************************************)
(* The Simulator.  `This` is the simulator object together with the part   *)
(* of the browser it acts on: the slider inputs it renders and reads, the  *)
(* animation frames it has requested, the start timers it has set, the     *)
(* axis range it last handed to the plot, and the exception (if any) the   *)
(* last event handler ended with.  Every method is an operator from the    *)
(* object before the call to the object after it; a method that throws     *)
(* sets `thrown` and the rest of its caller is skipped.                    *)
(***************************************************************************)
VARIABLES
    dt,                \* this.options.dt
    currentSystemKey,  \* this.currentSystemKey
    animationId,       \* this.animationId, 0 for null
    plotData,          \* this.plotData, a sequence of <<t, x>>
    state,             \* this.state
    sliders,           \* the values of the .js-param-slider inputs, in order
    frames,            \* handles of the animation frames requested and not yet run
    timers,            \* number of pending setTimeout(() => this.start())
    xRange,            \* layout.xaxis.range last given to Plotly
    thrown,            \* "none", or the error the last handler threw
    initialStates,     \* the initialState objects of the registry, by key, as they are now
    shared             \* key of the initialState object this.state is, or "none"

vars == <<dt, currentSystemKey, animationId, plotData, state, sliders, frames,
          timers, xRange, thrown, initialStates, shared>>

\* ---- bounds of the exploration ----
\* default-parameter runs are followed until t reaches MaxT (ms)
MaxT == 181

\* runs with a moved slider, and runs of OpenSpec, are followed for this many ticks
MaxShortTicks == 2

\* a slider is moved only before tick number MaxInputTicks of a fresh buffer
MaxInputTicks == 1

\* at most MaxMoved sliders are away from the value they were rendered with
MaxMoved == 1

\* at most MaxTimers start timers are pending
MaxTimers == 2

\* a pending start timer expires before the buffer holds more than this many ticks
MaxLagTicks == 6

\* ---- program constants ----
MAX_SAMPLES == 5000

HodgkinSteps == 20

OtherSteps == 10

This ==
    [dt |-> dt, currentSystemKey |-> currentSystemKey, animationId |-> animationId,
     plotData |-> plotData, state |-> state, sliders |-> sliders, frames |-> frames,
     timers |-> timers, xRange |-> xRange, thrown |-> thrown,
     initialStates |-> initialStates, shared |-> shared]

\* the handler that ran left the object as s
Becomes(s) ==
    /\ dt' = s.dt
    /\ currentSystemKey' = s.currentSystemKey
    /\ animationId' = s.animationId
    /\ plotData' = s.plotData
    /\ state' = s.state
    /\ sliders' = s.sliders
    /\ frames' = s.frames
    /\ timers' = s.timers
    /\ xRange' = s.xRange
    /\ thrown' = s.thrown
    /\ initialStates' = s.initialStates
    /\ shared' = s.shared

\* the object is s at the start
Begins(s) ==
    /\ dt = s.dt
    /\ currentSystemKey = s.currentSystemKey
    /\ animationId = s.animationId
    /\ plotData = s.plotData
    /\ state = s.state
    /\ sliders = s.sliders
    /\ frames = s.frames
    /\ timers = s.timers
    /\ xRange = s.xRange
    /\ thrown = s.thrown
    /\ initialStates = s.initialStates
    /\ shared = s.shared

Throw(s) == [s EXCEPT !.thrown = "TypeError"]

Keys == DOMAIN NEURON_MODELS

\* getCurrentSystem() returns undefined for a key the registry lacks
HasCurrentSystem(s) == s.currentSystemKey \in Keys

\* this.systems[this.currentSystemKey], its initialState object as it is now
getCurrentSystem(s) ==
    [NEURON_MODELS[s.currentSystemKey] EXCEPT
        !.initialState = s.initialStates[s.currentSystemKey]]

\* the value an <input type=range min max step value> takes: clamped to
\* [min, max] and rounded to the nearest min + k * step (the higher on a tie)
RangeValue(param) ==
    LET clamped == IF param.value < param.min THEN param.min
                   ELSE IF param.value > param.max THEN param.max
                   ELSE param.value
        off     == clamped - param.min
        down    == param.min + (off \div param.step) * param.step
        up      == down + param.step
    IN  IF off % param.step = 0 THEN clamped
        ELSE IF up <= param.max /\ up - clamped <= clamped - down THEN up
        ELSE down

\* the slider values updateUIControls renders for a system
RenderedSliders(system) ==
    [i \in 1..Len(system.parameters) |-> RangeValue(system.parameters[i])]

updateUIControls(s) ==
    IF ~HasCurrentSystem(s) THEN Throw(s)
    ELSE [s EXCEPT !.sliders = RenderedSliders(getCurrentSystem(s))]

\* parseFloat(slider.value) of every slider
getParameters(s) == s.sliders

\* JSON.parse(JSON.stringify(obj)): a number that is not finite comes back null
JsonCopy(obj) == [c \in DOMAIN obj |-> IF obj[c] = NaN THEN Null ELSE obj[c]]

\* baseLayout.xaxis.range
BaseRange == <<0, Num(200)>>

\* the copy of initialState that restart() makes
restartState(system) == JsonCopy(system.initialState)

\* mutant of restart: the initial sample is pushed onto the old buffer and the
\* initialState is merged into the old State
restartKeeping(s) ==
    IF ~HasCurrentSystem(s) THEN Throw(s)
    ELSE LET st == restartState(getCurrentSystem(s))
         IN  [s EXCEPT !.state = [c \in DOMAIN s.state \cup DOMAIN st |->
                                     IF c \in DOMAIN st THEN st[c] ELSE s.state[c]],
                       !.plotData = Append(s.plotData, <<Get(st, "t"), Get(st, "x")>>),
                       !.xRange = BaseRange]

\* mutant of restart: this.state = system.initialState, without the copy
restartSharing(s) ==
    IF ~HasCurrentSystem(s) THEN Throw(s)
    ELSE LET st == getCurrentSystem(s).initialState
         IN  [s EXCEPT !.state = st,
                       !.shared = s.currentSystemKey,
                       !.plotData = << <<Get(st, "t"), Get(st, "x")>> >>,
                       !.xRange = BaseRange]

\* the object JSON.parse returns is a new one
restart(s) ==
    IF ~HasCurrentSystem(s) THEN Throw(s)
    ELSE LET st == restartState(getCurrentSystem(s))
         IN  [s EXCEPT !.state = st,
                       !.shared = "none",
                       !.plotData = << <<Get(st, "t"), Get(st, "x")>> >>,
                       !.xRange = BaseRange]

\* mutant of reset: the sliders are not rendered again
resetKeepingControls(s) == restart(s)

reset(s) ==
    LET s1 == updateUIControls(s)
    IN  IF s1.thrown # "none" THEN s1 ELSE restart(s1)

\* requestAnimationFrame returns a handle that no pending frame has.  The
\* browser numbers its handles upward and never reuses one; the simulator only
\* tests its handle for null and passes it to cancelAnimationFrame, and it
\* overwrites or clears the handle it holds before it requests another, so
\* the least handle not pending stands for the fresh one.
requestAnimationFrame(s) ==
    CHOOSE h \in 1..(Cardinality(s.frames) + 1) :
        /\ h \notin s.frames
        /\ \A g \in 1..(h - 1) : g \in s.frames

cancelAnimationFrame(s, h) == [s EXCEPT !.frames = @ \ {h}]

\* mutant of start: no test of animationId
startUnguarded(s) ==
    LET h == requestAnimationFrame(s)
    IN  [s EXCEPT !.animationId = h, !.frames = @ \cup {h}]

start(s) ==
    IF s.animationId # 0 THEN s
    ELSE LET h == requestAnimationFrame(s)
         IN  [s EXCEPT !.animationId = h, !.frames = @ \cup {h}]

\* mutant of stop: the handle is forgotten and the frame not cancelled
stopWithoutCancel(s) == [s EXCEPT !.animationId = 0]

stop(s) ==
    IF s.animationId # 0
    THEN [cancelAnimationFrame(s, s.animationId) EXCEPT !.animationId = 0]
    ELSE s

\* system.name.includes('Hodgkin')
NameIncludesHodgkin(name) == name = "Hodgkin-Huxley (Biophysical)"

stepsPerFrameOf(system) ==
    IF NameIncludesHodgkin(system.name) THEN HodgkinSteps ELSE OtherSteps

\* mutant of StepOnce: the passes after the first read the rendered values
StepOnceRereading(s, params, sp) ==
    LET used == IF Len(sp[2]) = Len(s.plotData) THEN params
                ELSE RenderedSliders(getCurrentSystem(s))
        st   == Simulate(s.currentSystemKey, used, sp[1], s.dt)
    IN  <<st, Append(sp[2], <<Get(st, "t"), Get(st, "x")>>)>>

\* the object passed to simulate as state, after the call: the simulate
\* functions read its properties and assign none of them
SimulateInput(key, params, input, step) == input

\* mutant of StepOnce: the sample pushed is the one of the State stepped from
StepOnceLagging(s, params, sp) ==
    LET st == Simulate(s.currentSystemKey, params, sp[1], s.dt)
    IN  <<st, Append(sp[2], <<Get(sp[1], "t"), Get(sp[1], "x")>>)>>

\* one pass of the for loop of animate(), on sp = <<state, plotData>>
StepOnce(s, params, sp) ==
    LET st == Simulate(s.currentSystemKey, params, sp[1], s.dt)
    IN  <<st, Append(sp[2], <<Get(st, "t"), Get(st, "x")>>)>>

RECURSIVE StepLoop(_, _, _, _)
\* the for loop of animate(): i more passes from sp = <<state, plotData>>
\* (Len(sp) is looked at so that each pass is evaluated before the next)
StepLoop(s, params, sp, i) ==
    IF i = 0 \/ Len(sp) # 2 THEN sp
    ELSE StepLoop(s, params, StepOnce(s, params, sp), i - 1)

\* mutant of Splice: the newest n samples are removed
SpliceNewest(data, n) == SubSeq(data, 1, Len(data) - n)

\* mutant of Splice: the n samples after the oldest are removed
SpliceAfterOldest(data, n) == <<data[1]>> \o SubSeq(data, n + 2, Len(data))

\* plotData.splice(0, n)
Splice(data, n) == SubSeq(data, n + 1, Len(data))

\* mutant of Evict: the length is compared as it was before the tick's pushes
EvictLate(data, n) == IF Len(data) - n > MAX_SAMPLES THEN Splice(data, n) ELSE data

\* mutant of Evict: the buffer is trimmed to the cap
EvictToCap(data, n) ==
    IF Len(data) > MAX_SAMPLES
    THEN SubSeq(data, Len(data) - MAX_SAMPLES + 1, Len(data))
    ELSE data

\* the eviction at the end of animate()
Evict(data, n) == IF Len(data) > MAX_SAMPLES THEN Splice(data, n) ELSE data

\* mutant of ViewRange: the window rolls from the first tick on
ViewRangeRolling(t) == <<Sub(t, Num(180)), Add(t, Num(20))>>

\* the xRange of updatePlotView()
ViewRange(t) ==
    IF Gt(t, Num(180)) THEN <<Sub(t, Num(180)), Add(t, Num(20))>> ELSE BaseRange

animate(s) ==
    IF s.animationId = 0 THEN s
    ELSE IF ~HasCurrentSystem(s) THEN Throw(s)
    ELSE LET system == getCurrentSystem(s)
             params == getParameters(s)
             steps  == stepsPerFrameOf(system)
             sp     == StepLoop(s, params, <<s.state, s.plotData>>, steps)
             s1     == [s EXCEPT !.state = sp[1],
                                 !.shared = "none",
                                 !.initialStates =
                                     IF s.shared = "none" THEN @
                                     ELSE [@ EXCEPT ![s.shared] =
                                             SimulateInput(s.currentSystemKey, params,
                                                           s.state, s.dt)],
                                 !.plotData = Evict(sp[2], steps),
                                 !.xRange = ViewRange(Get(sp[1], "t"))]
             h      == requestAnimationFrame(s1)
         IN  [s1 EXCEPT !.animationId = h, !.frames = @ \cup {h}]

\* mutant of onChange: the loop is not stopped
onChangeWithoutStop(s, key) ==
    LET s1 == [s EXCEPT !.currentSystemKey = key]
        s2 == reset(s1)
    IN  IF s2.thrown # "none" THEN s2 ELSE [s2 EXCEPT !.timers = @ + 1]

\* mutant of onChange: no start is scheduled
onChangeWithoutStart(s, key) ==
    LET s1 == [stop(s) EXCEPT !.currentSystemKey = key]
    IN  reset(s1)

\* the 'change' listener of the system select
onChange(s, key) ==
    LET s1 == [stop(s) EXCEPT !.currentSystemKey = key]
        s2 == reset(s1)
    IN  IF s2.thrown # "none" THEN s2 ELSE [s2 EXCEPT !.timers = @ + 1]

\* new Simulator(containerId, NEURON_MODELS, {defaultSystem, dt}) up to
\* this.init(); the null state, which nothing reads, is the empty record
Constructed(defaultSystem, optDt) ==
    [dt |-> optDt, currentSystemKey |-> defaultSystem, animationId |-> 0,
     plotData |-> << >>, state |-> << >>, sliders |-> << >>, frames |-> {},
     timers |-> 0, xRange |-> BaseRange, thrown |-> "none",
     initialStates |-> [k \in Keys |-> NEURON_MODELS[k].initialState],
     shared |-> "none"]

init(s) ==
    LET s1 == reset(s)
    IN  IF s1.thrown # "none" THEN s1 ELSE [s1 EXCEPT !.timers = @ + 1]

\* a handler starts with no exception pending
Entry == [This EXCEPT !.thrown = "none"]

(***************************************************************************)
(* The events.                                                             *)
(***************************************************************************)
\* the application's constructor call: defaultSystem 'lif', dt 0.02
Init == Begins(init(Constructed("lif", Milli(20))))

\* a start timer expires
TimerFires ==
    /\ timers > 0
    /\ Becomes(start([Entry EXCEPT !.timers = @ - 1]))

\* whether the sliders hold the values they were rendered with
SlidersMoved(s) ==
    IF HasCurrentSystem(s)
    THEN {i \in 1..Len(s.sliders) : s.sliders[i] # RenderedSliders(getCurrentSystem(s))[i]}
    ELSE {}

\* number of ticks' worth of samples in the buffer (bounds only)
TicksBuffered(s) ==
    IF HasCurrentSystem(s)
    THEN (Len(s.plotData) - 1) \div stepsPerFrameOf(getCurrentSystem(s))
    ELSE 0

\* the browser runs the callback of a pending animation frame
FrameCallback(h) == Becomes(animate([Entry EXCEPT !.frames = @ \ {h}]))

FrameFires ==
    \E h \in frames :
        /\ timers = 0 \/ TicksBuffered(This) < MaxLagTicks
        /\ IF SlidersMoved(This) = {}
           THEN Lt(Get(state, "t"), Num(MaxT))
           ELSE TicksBuffered(This) < MaxShortTicks
        /\ FrameCallback(h)

\* the user picks another system in the select
Change ==
    \E key \in Keys \ {currentSystemKey} :
        /\ timers < MaxTimers
        /\ Becomes(onChange(Entry, key))

\* the reset button
ClickReset ==
    /\ TRUE
    /\ Becomes(reset(Entry))

\* the restart button
ClickRestart ==
    /\ TRUE
    /\ Becomes(restart(Entry))

\* the values the user drags slider i of a system to: its ends
SliderEnds(system, i) == {system.parameters[i].min, system.parameters[i].max}

SliderInput ==
    /\ HasCurrentSystem(This)
    /\ TicksBuffered(This) < MaxInputTicks
    /\ \E i \in 1..Len(sliders) :
          \E v \in SliderEnds(getCurrentSystem(This), i) :
             LET s == [Entry EXCEPT !.sliders[i] = v]
             IN  /\ v # sliders[i]
                 /\ Cardinality(SlidersMoved(s)) <= MaxMoved
                 /\ Becomes(s)

Next ==
    \/ TimerFires
    \/ FrameFires
    \/ Change
    \/ ClickReset
    \/ ClickRestart
    \/ SliderInput

Spec == Init /\ [][Next]_vars

(***************************************************************************)
(* Properties of the application (Spec).                                   *)
(***************************************************************************)
Running == animationId # 0

Stopped == animationId = 0

\* the step is a tick: the live State was replaced and the buffer is not the
\* one-sample buffer of a restart
Ticked == state' # state /\ Len(plotData') > 1

\* the step reinitialised the buffer: a longer buffer, or another system's,
\* became a one-sample buffer
Reinitialised ==
    /\ Len(plotData') = 1
    /\ Len(plotData) > 1 \/ currentSystemKey' # currentSystemKey

IsSuffix(a, b) ==
    /\ Len(a) <= Len(b)
    /\ a = SubSeq(b, Len(b) - Len(a) + 1, Len(b))

CurrentSteps == stepsPerFrameOf(NEURON_MODELS[currentSystemKey])

\* C1: the trajectory buffer never holds more than MAX_SAMPLES samples, for
\* every model and any sequence of ticks, resets, restarts and model switches.
C1_BufferCapped == Len(plotData) <= MAX_SAMPLES

\* C1 witness: a buffer that has been evicted from (its first sample is no
\* longer the initial one) and is within one tick of the cap
C1_EvictedAtCap ==
    /\ Len(plotData) > MAX_SAMPLES - HodgkinSteps
    /\ plotData[1][1] > 0

TimeOrdered == \A i \in 1..(Len(plotData) - 1) : plotData[i][1] <= plotData[i + 1][1]

\* what a tick keeps of the old buffer is the newest part of it
KeepsNewest ==
    Ticked => IsSuffix(SubSeq(plotData', 1, Len(plotData') - CurrentSteps), plotData)

\* C2: eviction removes samples from the oldest end only (what a tick keeps of
\* the old buffer is a suffix of it), and in every reachable state, the one
\* right after a restart included, the samples are in non-decreasing order of t.
C2_FrontEvictionKeepsOrder == [](TimeOrdered) /\ [][KeepsNewest]_vars

\* C2 witness: an evicted buffer (first sample later than the initial one) that
\* still ends at the live State
C2_EvictedBuffer ==
    /\ Len(plotData) > 1
    /\ plotData[1][1] > 0
    /\ plotData[Len(plotData)][1] = state.t

\* C3 as stated: whenever State and buffer are reinitialised the loop has been
\* stopped first and is started again only later, so the step that
\* reinitialises them leaves the loop Stopped.
C3_ReinitOnlyWhenStopped == [][Reinitialised => animationId' = 0]_vars

\* C3 amended: a model switch stops the loop (cancelling the pending frame)
\* before it reinitialises State and buffer and leaves the start to a timer; a
\* reset or restart click reinitialises them without touching the loop.
C3_SwitchStopsClickDoesNot ==
    [][Reinitialised =>
          IF currentSystemKey' # currentSystemKey
          THEN animationId' = 0 /\ frames' = {} /\ timers' = timers + 1
          ELSE animationId' = animationId /\ frames' = frames /\ timers' = timers]_vars

\* C3 witness: State and buffer freshly reinitialised while the loop is Running
C3_ReinitWhileRunning ==
    /\ Running
    /\ Len(plotData) = 1
    /\ timers = 0
    /\ frames # {}

\* C4: start() is a no-op on a running loop (a start timer that expires while
\* the loop is Running changes neither the handle, the pending frames, the
\* State nor the buffer), and at most one tick is pending at any time, the one
\* whose handle the simulator holds.
C4_OneTickPending ==
    /\ [](Cardinality(frames) <= 1 /\ frames \subseteq {animationId})
    /\ [][(Running /\ timers' < timers) =>
             /\ animationId' = animationId
             /\ frames' = frames
             /\ state' = state
             /\ plotData' = plotData]_vars

\* C4 witness: the loop is Running, has ticked, and a delayed start() is still
\* to be called on it
C4_StartDueWhileRunning ==
    /\ Running
    /\ timers > 0
    /\ Len(plotData) > 1

\* C5: while the loop is Stopped no frame is pending, so no tick executes: no
\* step that starts Stopped is a tick; and stop() on a stopped loop changes
\* nothing.
C5_NoTickWhileStopped ==
    /\ [](Stopped => frames = {} /\ stop(This) = This)
    /\ [][Stopped => ~Ticked]_vars

\* C5 witness: a loop that stop() stopped while it was Running (one timer is
\* pending and the system is not the initial one: the last switch found no
\* timer pending, so every earlier start() had been called)
C5_StoppedByStop ==
    /\ Stopped
    /\ timers = 1
    /\ currentSystemKey # "lif"

InitialSample(key) ==
    << <<NEURON_MODELS[key].initialState.t, NEURON_MODELS[key].initialState.x>> >>

\* C8: for every model, right after a reset, a restart or a model switch the
\* buffer holds exactly one sample, (initialState.t, initialState.x) of the
\* current model.
C8_OneSampleAfterRestart ==
    [][(ClickReset \/ ClickRestart \/ Change) =>
          plotData' = InitialSample(currentSystemKey')]_vars

\* C8 witness: the one-sample buffer of a model other than the initial one
C8_FreshBuffer ==
    /\ currentSystemKey = "hodgkin_huxley"
    /\ plotData = InitialSample("hodgkin_huxley")

\* the components of the States of a model: those of its initialState and
\* those its step function returns
ComponentSets(key) ==
    {DOMAIN NEURON_MODELS[key].initialState,
     DOMAIN Simulate(key, RenderedSliders(NEURON_MODELS[key]),
                     NEURON_MODELS[key].initialState, dt)}

\* C9: a model switch leaves the State equal to the new model's initialState,
\* and the live State always has the components of a State of the current
\* model: no component of a previous model survives (no n outside the
\* Hodgkin-Huxley model), so no tick runs on a State of another model.
C9_StateOfCurrentModel ==
    /\ [](DOMAIN state \in ComponentSets(currentSystemKey))
    /\ []("n" \in DOMAIN state => currentSystemKey = "hodgkin_huxley")
    /\ [][currentSystemKey' # currentSystemKey =>
             state' = NEURON_MODELS[currentSystemKey'].initialState]_vars

\* C9 witness: the LIF model, selected again after another model (a timer is
\* pending on a Running loop, so a switch has happened), has ticked
C9_TickedAfterSwitch ==
    /\ currentSystemKey = "lif"
    /\ timers = 1
    /\ Running
    /\ DOMAIN state = {"x", "t"}

(***************************************************************************)
(* The Simulator under any host (OpenSpec): the constructor is given any   *)
(* dt, and the select may carry a value that is no key of the registry.    *)
(***************************************************************************)
\* the dt options tried: a negative one, zero, and the application's
OpenDts == {Milli(-1), 0, Milli(20)}

\* a select value that is no key of the registry
UnknownKey == "unknown"

InitOpen == \E d \in OpenDts : Begins(init(Constructed("lif", d)))

FrameFiresOpen ==
    \E h \in frames :
        /\ TicksBuffered(This) < MaxShortTicks
        /\ FrameCallback(h)

ChangeOpen ==
    \E key \in (Keys \cup {UnknownKey}) \ {currentSystemKey} :
        /\ timers < MaxTimers
        /\ Becomes(onChange(Entry, key))

NextOpen ==
    \/ TimerFires
    \/ FrameFiresOpen
    \/ ChangeOpen
    \/ ClickReset
    \/ ClickRestart
    \/ SliderInput

OpenSpec == InitOpen /\ [][NextOpen]_vars

\* C6 as stated: selecting a key that is not in the registry fails with an
\* error and leaves the session on its prior model: the current model key and
\* the live State after the failed selection equal those before it.
C6_UnknownKeyKeepsModel ==
    [][currentSystemKey' \notin Keys =>
          /\ thrown' # "none"
          /\ currentSystemKey' = currentSystemKey
          /\ state' = state]_vars

\* C6: the session left on the unregistered key by a selection that threw
C6_LeftOnUnknownKey ==
    /\ currentSystemKey = UnknownKey
    /\ thrown # "none"
    /\ Stopped
    /\ timers = 0

\* the step is a frame callback of a Running loop with a registered system:
\* animate() gets to its for loop
FrameRan ==
    /\ Running
    /\ currentSystemKey \in Keys
    /\ \E h \in frames : FrameCallback(h)

\* C7 as stated: with dt <= 0 a step fails with an error and leaves the live
\* State unchanged: no tick replaces the State or appends a sample.
C7_NonPositiveDtRejected ==
    [][(dt <= 0 /\ FrameRan) =>
          /\ thrown' # "none"
          /\ state' = state
          /\ plotData' = plotData]_vars

\* C7: samples appended by ticks of a session whose dt is not positive
C7_TickedWithBadDt ==
    /\ dt <= 0
    /\ thrown = "none"
    /\ Len(plotData) > 1
    /\ plotData[Len(plotData)][1] <= 0

(***************************************************************************)
(* The step functions on their own (StepSpec): a system, a parameter       *)
(* vector and a State are drawn, range limits not enforced, and the        *)
(* system's simulate() is applied step after step with the application's   *)
(* dt.  The parameter vector is held in `sliders`, the State in `state`.   *)
(***************************************************************************)
\* steps followed from each drawn State
MaxSteps == 12

\* parameter vectors <<I, tau, Vth, El>> of lif: slider values and values
\* outside the slider ranges (I = 120, Vth = 5, El = -30)
LifVectors ==
    {<<I, tau, Vth, El>> :
        I \in {Num(21), Num(40), Num(120)}, tau \in {Num(5), Num(20)},
        Vth \in {Num(-50), Num(-40), Num(5)}, El \in {Num(-70), Num(-60), Num(-30)}}

\* V of the drawn States for a parameter vector: at rest, just below, at and
\* above the threshold, and at the spike marker
LifVoltages(params) ==
    {params[4], params[3] - Milli(10), params[3], params[3] + Num(3), 0}

\* parameter vectors <<I, a, b, c, d>> of izhikevich_rs: slider values and
\* values outside the slider ranges (I = 100, c = -40)
IzhVectors ==
    {<<I, a, Milli(200), c, d>> :
        I \in {Num(10), Num(100)}, a \in {Milli(20), Milli(100)},
        c \in {Num(-65), Num(-40)}, d \in {0, Num(8)}}

\* drawn States of izhikevich_rs: at rest, just below, at and above v = 30
IzhStates ==
    {[x |-> v, y |-> u, t |-> 0] :
        v \in {Num(-65), Num(30) - Milli(100), Num(30), Num(35)},
        u \in {Num(-13), Num(2)}}

\* parameter vectors <<I_ext, gNa, gK, gL>> of hodgkin_huxley
HhVectors ==
    {<<I, Num(120), gK, Milli(300)>> : I \in {0, Num(10)}, gK \in {Num(36), Num(60)}}

\* V of the drawn States of hodgkin_huxley: at rest, and at, inside and at the
\* edge of the 1e-5 neighbourhoods of the singular points -55 and -40
HhVoltages ==
    {Num(-65)} \cup {Num(s) + e : s \in {-55, -40}, e \in {-11, -10, -9, 0, 9, 10, 11}}

\* drawn States of hodgkin_huxley, with and without the component n
HhStates ==
    {[x |-> v, y |-> Milli(50), z |-> Milli(600), t |-> 0] : v \in HhVoltages}
    \cup {[x |-> v, y |-> Milli(50), z |-> Milli(600), n |-> Milli(320), t |-> 0] :
             v \in {Num(-55), Num(-40)}}

StepKeys == {"lif", "izhikevich_rs", "hodgkin_huxley"}

StepVectors(key) ==
    CASE key = "lif" -> LifVectors
      [] key = "izhikevich_rs" -> IzhVectors
      [] key = "hodgkin_huxley" -> HhVectors

StepStates(key, params) ==
    CASE key = "lif" -> {[x |-> v, t |-> 0] : v \in LifVoltages(params)}
      [] key = "izhikevich_rs" -> IzhStates
      [] key = "hodgkin_huxley" -> HhStates

InitStep ==
    \E key \in StepKeys :
        \E params \in StepVectors(key) :
            \E st \in StepStates(key, params) :
                Begins([Constructed(key, Milli(20)) EXCEPT
                           !.sliders = params, !.state = st])

\* one call state = system.simulate(params, state, dt)
Step ==
    /\ state.t < MaxSteps * dt
    /\ state' = Simulate(currentSystemKey, sliders, state, dt)
    /\ UNCHANGED <<dt, currentSystemKey, animationId, plotData, sliders, frames,
                   timers, xRange, thrown, initialStates, shared>>

NextStep == Step

StepSpec == InitStep /\ [][NextStep]_vars

\* ---- lif, stated from the update rule ----
LifVth == sliders[3]

LifVreset == sliders[4] - Num(5)

\* forward Euler of dV/dt = (E_L - V + I) / tau from V
LifEuler(V) == V + Mul(dt, Div(sliders[4] - V + sliders[1], sliders[2]))

\* the value a step reports when it integrates from V
LifReported(V) == IF LifEuler(V) >= LifVth THEN 0 ELSE LifEuler(V)

\* the V the step from the current State integrates from
LifFrom == IF state.x >= LifVth THEN LifVreset ELSE state.x

\* the step from the current State reports the spike marker
LifSpikes == LifEuler(LifFrom) >= LifVth

LifTwoPhase ==
    currentSystemKey = "lif" =>
        /\ LifSimulate(sliders, state, dt).x = LifReported(LifFrom)
        /\ LifSimulate(sliders, state, dt).t = state.t + dt
        /\ LifSpikes => LifSimulate(sliders, state, dt).x = 0

\* C10 as stated: for every accepted parameter vector, a step that reported
\* the spike marker is followed by a step whose integration starts from V_reset.
C10_ResetFollowsEveryMarker ==
    [][(currentSystemKey = "lif" /\ LifSpikes) =>
          LifStartV(sliders', state') = LifVreset]_vars

\* C10, the part the code keeps: a step that starts with V >= V_th integrates from V_reset =
\* E_L - 5 and one that starts below V_th from V; a step whose integrated V
\* is >= V_th reports 0; and when V_th <= 0 (every V_th of the slider range)
\* the step after one that reported the marker integrates from V_reset.
C10_TwoPhaseReset ==
    /\ [](LifTwoPhase)
    /\ [][(currentSystemKey = "lif" /\ LifSpikes /\ LifVth <= 0) =>
             /\ state'.x = 0
             /\ LifStartV(sliders', state') = LifVreset
             /\ LifSimulate(sliders', state', dt).x = LifReported(LifVreset)]_vars

\* C10: a State reported with the spike marker from which the next step does
\* not reset, the marker 0 being below a positive threshold
C10_MarkerBelowThreshold ==
    /\ currentSystemKey = "lif"
    /\ state.t > 0
    /\ state.x = 0
    /\ LifVth > 0
    /\ LifStartV(sliders, state) = 0
    /\ LifVreset # 0

\* ---- izhikevich_rs, stated from the update rule ----
IzhSpike == Num(30)

\* v and u the step from the current State computes its derivatives with
IzhV == IF state.x >= IzhSpike THEN sliders[4] ELSE state.x

IzhU == IF state.x >= IzhSpike THEN state.y + sliders[5] ELSE state.y

\* forward Euler of dv/dt = 0.04 v^2 + 5 v + 140 - u + I from IzhV, IzhU
IzhEulerV ==
    IzhV + Mul(dt, Mul(Mul(Milli(40), IzhV), IzhV) + Mul(Num(5), IzhV) + Num(140)
                     - IzhU + sliders[1])

\* forward Euler of du/dt = a (b v - u) from IzhV, IzhU
IzhEulerU == IzhU + Mul(dt, Mul(sliders[2], Mul(sliders[3], IzhV) - IzhU))

\* C11: a step of izhikevich_rs that starts with v >= 30 computes its
\* derivatives from v = c and u = u + d; the v it reports is the Euler value
\* cut at 30, so <= 30 after every step; and the u it reports is the plain
\* Euler value u + dt * a * (b * v - u), never cut.
C11_IzhResetThenClamp ==
    /\ [](currentSystemKey = "izhikevich_rs" =>
             /\ IzhSimulate(sliders, state, dt).x =
                    (IF IzhEulerV >= IzhSpike THEN IzhSpike ELSE IzhEulerV)
             /\ IzhSimulate(sliders, state, dt).x <= IzhSpike
             /\ IzhSimulate(sliders, state, dt).y = IzhEulerU
             /\ IsNum(IzhSimulate(sliders, state, dt).x))
    /\ [][currentSystemKey = "izhikevich_rs" =>
             state'.x <= IzhSpike /\ state'.y = IzhEulerU]_vars

\* C11 witness: a step reported the clamped v = 30 and the step that resets
\* from it is still to be taken, with d > 0 and u above 30 after the reset
C11_ClampedThenReset ==
    /\ currentSystemKey = "izhikevich_rs"
    /\ state.t > 0
    /\ state.t < MaxSteps * dt
    /\ state.x = IzhSpike
    /\ IzhV = sliders[4]
    /\ IzhU = state.y + Num(8)

\* ---- hodgkin_huxley: the rates with a removable singularity ----
\* |V - s| < 1e-5 for the current V
NearSingularity(s) == Abs(state.x - Num(s)) < 10

HhStepIsNumeric ==
    LET next == HhSimulate(sliders, state, dt)
    IN  \A c \in {"x", "y", "z", "n", "t"} : IsNum(next[c])

\* C12: in the step of hodgkin_huxley from the current State, alpha_m is 1.0
\* and alpha_n is 0.1 when V is within 1e-5 of -40 and of -55; otherwise the
\* quotient is evaluated, its divisor is not zero and the rate is a number;
\* every component of the State the step returns is a number.
C12_SingularitiesGuarded ==
    currentSystemKey = "hodgkin_huxley" =>
        /\ IF NearSingularity(-40) THEN AlphaM(state.x) = Num(1)
           ELSE /\ AlphaMDivisor(state.x) # 0
                /\ AlphaM(state.x) = Div(Mul(Milli(100), state.x + Num(40)),
                                         AlphaMDivisor(state.x))
                /\ IsNum(AlphaM(state.x))
        /\ IF NearSingularity(-55) THEN AlphaN(state.x) = Milli(100)
           ELSE /\ AlphaNDivisor(state.x) # 0
                /\ AlphaN(state.x) = Div(Mul(Milli(10), state.x + Num(55)),
                                         AlphaNDivisor(state.x))
                /\ IsNum(AlphaN(state.x))
        /\ HhStepIsNumeric

\* C12 witness: the State after one step from V within 1e-5 of -40, its m
\* integrated with alpha_m = 1.0
C12_SteppedAtSingularity ==
    /\ currentSystemKey = "hodgkin_huxley"
    /\ state.t = dt
    /\ Abs(state.x - Num(-40)) < Milli(300)
    /\ state.y = Milli(50) + Mul(dt, Mul(Num(1), Num(1) - Milli(50))
                                     - Mul(BetaM(Num(-40)), Milli(50)))
    /\ IsNum(state.n)

\* ---- one vector per tick ----
RECURSIVE StepsWith(_, _, _, _)
\* the States of i more steps of system key with the one vector params,
\* after those of seq
StepsWith(key, params, seq, i) ==
    IF i = 0 \/ Len(seq) = 0 THEN seq
    ELSE StepsWith(key, params,
                   Append(seq, Simulate(key, params, seq[Len(seq)], dt)), i - 1)

\* the States of the sub-steps of a tick from the current State, all computed
\* with the vector the sliders hold before the tick
TickStates == Tail(StepsWith(currentSystemKey, sliders, <<state>>, CurrentSteps))

\* C13: every sub-step of a tick uses the parameter vector read at the start
\* of the tick: the State after the tick and the samples it pushed are those
\* of stepsPerFrame steps with the vector the sliders held before the tick;
\* a slider change alters neither the State nor the buffer, so it is seen
\* only by later ticks.
C13_OneVectorPerTick ==
    /\ [][Ticked =>
             LET ts == TickStates
                 n  == Len(ts)
             IN  /\ n = CurrentSteps
                 /\ state' = ts[n]
                 /\ SubSeq(plotData', Len(plotData') - n + 1, Len(plotData')) =
                        [i \in 1..n |-> <<ts[i].t, ts[i].x>>]
                 /\ sliders' = sliders]_vars
    /\ [][(sliders' # sliders /\ currentSystemKey' = currentSystemKey
                /\ Len(plotData') > 1) =>
             state' = state /\ plotData' = plotData]_vars

\* C13 witness: two ticks ran with a slider away from its rendered value
C13_TickedWithMovedSlider ==
    /\ SlidersMoved(This) # {}
    /\ TicksBuffered(This) = 2
    /\ Running

\* ---- the axis-range hint ----
\* C14: the range handed to the renderer by a tick is [0, 200] while the
\* State's t <= 180 and [t - 180, t + 20] once t > 180; the range is always
\* 200 time units wide and contains the current t.
C14_RollingWindow ==
    /\ [][Ticked =>
             xRange' = IF state'.t > Num(180)
                       THEN <<state'.t - Num(180), state'.t + Num(20)>>
                       ELSE <<0, Num(200)>>]_vars
    /\ [](/\ xRange[2] - xRange[1] = Num(200)
          /\ xRange[1] <= state.t
          /\ state.t <= xRange[2])

\* C14 witness: a tick of hodgkin_huxley took t beyond 180 and the window rolled
C14_WindowRolled ==
    /\ currentSystemKey = "hodgkin_huxley"
    /\ state.t > Num(180)
    /\ xRange = <<state.t - Num(180), state.t + Num(20)>>
    /\ xRange[1] > 0
    /\ plotData[Len(plotData)][1] = state.t

\* ---- value copies ----
\* C15: the State never shares storage with an initialState of the registry
\* (restart() installs a copy, a tick the new object simulate returns), a
\* step leaves the object it was given as it was, and every model's
\* initialState is still what it was at load time.
C15_InitialStatesUntouched ==
    /\ shared = "none"
    /\ currentSystemKey \in Keys =>
           SimulateInput(currentSystemKey, sliders, state, dt) = state
    /\ \A k \in Keys : initialStates[k] = NEURON_MODELS[k].initialState

\* C15 witness: after a model switch and ticks of the new model the live State
\* has moved away from the initialState it was copied from
C15_SteppedAwayFromInitial ==
    /\ currentSystemKey = "izhikevich_rs"
    /\ TicksBuffered(This) = 3
    /\ state.x # initialStates[currentSystemKey].x
    /\ state.t > initialStates[currentSystemKey].t
    /\ initialStates[currentSystemKey] = NEURON_MODELS[currentSystemKey].initialState

\* ---- eviction in chunks of one tick ----
\* C16: a tick evicts only when the buffer, with the tick's samples pushed,
\* is longer than 5000; it then removes exactly the tick's step count (20
\* samples for hodgkin_huxley, 10 for the other models) from the front, so the
\* buffer is as long after the tick as before it; otherwise nothing is removed.
C16_EvictsOneTick ==
    [][Ticked =>
         LET n    == IF currentSystemKey = "hodgkin_huxley" THEN 20 ELSE 10
             old  == Len(plotData)
             kept == SubSeq(plotData', 1, Len(plotData') - n)
         IN  IF old + n > 5000
             THEN /\ Len(plotData') = old
                  /\ kept = SubSeq(plotData, n + 1, old)
             ELSE /\ Len(plotData') = old + n
                  /\ kept = plotData]_vars

\* C16 witness: the buffer of hodgkin_huxley after its first evicting tick: as
\* long as before it, and starting at the sample of step 20
C16_FirstChunkEvicted ==
    /\ currentSystemKey = "hodgkin_huxley"
    /\ Len(plotData) = 4981
    /\ plotData[1][1] = 20 * dt
    /\ plotData[Len(plotData)][1] = 5000 * dt

\* ---- arity of the parameter vector ----
\* the values slider i of the current system can hold in this model: the one
\* it was rendered with and the ends it is dragged to
SliderValues(i) ==
    LET param == NEURON_MODELS[currentSystemKey].parameters[i]
    IN  {RangeValue(param), param.min, param.max}

\* C17: the vector a tick passes to the current model's step function has one
\* entry per parameter of the current model, entry i being the value of the
\* slider of parameter i, after any sequence of switches, resets and restarts.
C17_VectorMatchesModel ==
    currentSystemKey \in Keys =>
        /\ Len(getParameters(This)) = Len(NEURON_MODELS[currentSystemKey].parameters)
        /\ \A i \in 1..Len(getParameters(This)) : getParameters(This)[i] \in SliderValues(i)

\* C17 witness: ticks of izhikevich_rs, switched to from a system with four
\* parameters, ran with a vector of five, one of them dragged to an end
C17_TickedWithFive ==
    /\ currentSystemKey = "izhikevich_rs"
    /\ Len(sliders) = 5
    /\ TicksBuffered(This) = 2
    /\ SlidersMoved(This) = {5}

\* ---- the buffer ends at the live State ----
\* C18: between operations the buffer is not empty and its last sample is
\* (t, x) of the live State.
C18_LastSampleIsState ==
    /\ Len(plotData) >= 1
    /\ plotData[Len(plotData)] = <<state.t, state.x>>

\* C18 witness: a running hodgkin_huxley session four ticks after a restart
C18_EndsAtStateAfterTicks ==
    /\ currentSystemKey = "hodgkin_huxley"
    /\ Running
    /\ timers = 0
    /\ Len(plotData) = 1 + 4 * HodgkinSteps
    /\ plotData[Len(plotData)] = <<state.t, state.x>>
    /\ state.t = 80 * dt

\* ---- the buffer is a contiguous stretch of the trajectory ----
\* consecutive samples are one dt apart, and the last is the live State's
Contiguous ==
    /\ \A i \in 1..(Len(plotData) - 1) : plotData[i + 1][1] = plotData[i][1] + dt
    /\ plotData[Len(plotData)][1] = state.t
    /\ plotData[1][1] = state.t - (Len(plotData) - 1) * dt

\* a tick leaves a suffix of the old buffer followed by the samples of its
\* consecutive steps
ExtendsTrajectory ==
    Ticked =>
        LET ts == TickStates
        IN  IsSuffix(plotData',
                     plotData \o [i \in 1..Len(ts) |-> <<ts[i].t, ts[i].x>>])

\* C19: the buffer is a contiguous suffix of the trajectory since the last
\* restart: consecutive samples come from consecutive steps, one dt apart,
\* with no gap and no duplicate, whatever has been evicted.
C19_ContiguousSuffix == [](Contiguous) /\ [][ExtendsTrajectory]_vars

\* C19 witness: the buffer of hodgkin_huxley after its second evicting tick
C19_EvictedTwice ==
    /\ currentSystemKey = "hodgkin_huxley"
    /\ Len(plotData) = 4981
    /\ plotData[1][1] = 40 * dt
    /\ state.t = 5020 * dt

(***************************************************************************)
(* The application with its timers and animation frames firing: a start    *)
(* timer that has been set expires, and the callback of a requested        *)
(* animation frame is run, as the browser does for a visible page.         *)
(***************************************************************************)
\* every fresh buffer is followed for this many ticks
MaxLiveTicks == 3

FrameFiresLive ==
    \E h \in frames :
        /\ TicksBuffered(This) < MaxLiveTicks
        /\ FrameCallback(h)

NextLive ==
    \/ TimerFires
    \/ FrameFiresLive
    \/ Change
    \/ ClickReset
    \/ ClickRestart
    \/ SliderInput

\* FrameFiresLive can be taken: a frame is pending and the buffer may grow
FrameDue == frames # {} /\ TicksBuffered(This) < MaxLiveTicks

\* weak fairness of FrameFiresLive, with its enabling condition and its steps
\* written out: a frame callback is not due forever without a tick
FramesRun == []<>(~FrameDue) \/ []<><<Ticked>>_vars

LiveSpec == Init /\ [][NextLive]_vars /\ WF_vars(TimerFires) /\ FramesRun

====
